---- MODULE Spec2Model ----
(***************************************************************************)
(* favicon-rustler: one request handled by main (src/src/lib.rs) and the   *)
(* helpers of src/src/utils.rs.  Every network call is one step; the code  *)
(* that runs between two awaits is part of the step that precedes it.      *)
(* Strings that the code inspects (URLs, hrefs) are sequences of tokens,   *)
(* so that starts_with, Url::parse, Url::join and to_string are computed.  *)
(***************************************************************************)
EXTENDS Integers, Sequences, FiniteSets, TLC

VARIABLES pc, segs, size, target, html, elemIdx, wkIdx, result, log, calls,
          response, bodyRead, out, error, seen, hit

vars == <<pc, segs, size, target, html, elemIdx, wkIdx, result, log, calls,
          response, bodyRead, out, error, seen, hit>>

(* ---------------- bounds of the explored inputs ---------------- *)
MaxElems == 2
MaxIcons == 2

(* ---------------- options ---------------- *)
None == <<>>
Some(v) == <<v>>
IsSome(o) == Len(o) > 0
Get(o) == o[1]

(* ---------------- URLs (url crate) ---------------- *)
Schemes == {"http://", "https://"}
BadHosts == {"["}

\* s.starts_with("http://") || s.starts_with("https://")
StartsWithHttp(s) == Len(s) > 0 /\ s[1] \in Schemes

\* Url::parse: an absolute URL with a valid host, else an error (None)
UrlParse(s) ==
  IF Len(s) >= 2 /\ s[1] \in Schemes /\ s[2] \notin BadHosts /\ s[2] \notin {"/", "//"}
  THEN Some([scheme |-> s[1], host |-> s[2],
             path |-> IF Len(s) = 2 THEN <<"/">> ELSE SubSeq(s, 3, Len(s))])
  ELSE None

\* Url::to_string
UrlToString(u) == <<u.scheme, u.host>> \o u.path

RECURSIVE DirOf(_)
\* the path up to and including its last "/"
DirOf(p) == IF Len(p) = 0 THEN <<"/">>
            ELSE IF p[Len(p)] = "/" THEN p
            ELSE DirOf(SubSeq(p, 1, Len(p) - 1))

\* Url::join: resolve a reference against a base, None on a parse error
UrlJoin(base, s) ==
  IF Len(s) = 0 THEN Some(base)
  ELSE IF s[1] \in Schemes THEN UrlParse(s)
  ELSE IF s[1] = "//" THEN UrlParse(<<base.scheme>> \o Tail(s))
  ELSE IF s[1] = "/" THEN Some([base EXCEPT !.path = s])
  ELSE Some([base EXCEPT !.path = DirOf(base.path) \o s])

(* ---------------- inputs ---------------- *)
Hosts == { <<"example.com">>, <<"[">> }

AbsHref == <<"https://", "cdn.example.net", "/", "a.png">>
RelHref == <<"/", "static", "/", "icon.png">>
DocRelHref == <<"img", "/", "i.png">>
BadHref == <<"//", "[">>
BadAbsHref == <<"https://", "[">>
ManifestHref == <<"https://", "example.com", "/", "manifest.json">>
CssHref == <<"https://", "example.com", "/", "site.css">>
Hrefs == {AbsHref, RelHref, DocRelHref, BadHref, BadAbsHref}

Elem(t, r, h, p, c) == [tag |-> t, rel |-> r, href |-> h, property |-> p, content |-> c]

Elements ==
  { Elem("link", "apple-touch-icon", Some(DocRelHref), "", None),
    Elem("link", "shortcut icon", Some(AbsHref), "", None),
    Elem("link", "icon", Some(RelHref), "", None),
    Elem("link", "manifest", Some(ManifestHref), "", None),
    Elem("link", "stylesheet", Some(CssHref), "", None),
    Elem("icon", "", Some(RelHref), "", None),
    Elem("apple-touch-icon", "", Some(BadHref), "", None),
    Elem("apple-touch-icon", "", None, "", None),
    Elem("meta", "", None, "og:image", Some(RelHref)),
    Elem("meta", "", None, "og:image", Some(BadAbsHref)),
    Elem("meta", "", None, "og:image", Some(BadHref)),
    Elem("meta", "", None, "og:image", None) }

SeqsUpTo(S, n) == UNION { [1..k -> S] : k \in 0..n }

Docs == SeqsUpTo(Elements, MaxElems)

Statuses == {200, 204, 301, 404}
Fail == [ok |-> FALSE]

\* answers to a GET or HEAD whose body is not looked at
StatusResponses == {Fail} \cup { [ok |-> TRUE, status |-> s] : s \in Statuses }

\* answers to the GET of the root document (response.text())
RootResponses == {Fail} \cup { [ok |-> TRUE, status |-> s, text |-> d] : s \in {200}, d \in Docs }

\* answers to the GET of a manifest (response.json())
IconEntries == { [src |-> None] } \cup { [src |-> Some(h)] : h \in {AbsHref, RelHref} }
Manifests == { [icons |-> None] } \cup { [icons |-> Some(a)] : a \in SeqsUpTo(IconEntries, MaxIcons) }
ManifestResponses == {Fail} \cup { [ok |-> TRUE, status |-> s, json |-> None] : s \in {200, 404} }
                     \cup { [ok |-> TRUE, status |-> 200, json |-> Some(m)] : m \in Manifests }

\* the same with icon entries whose src does not resolve against the base
AllIconEntries == IconEntries \cup { [src |-> Some(BadHref)] }
AllManifests == { [icons |-> None] } \cup { [icons |-> Some(a)] : a \in SeqsUpTo(AllIconEntries, MaxIcons) }
AllManifestResponses == {Fail} \cup { [ok |-> TRUE, status |-> s, json |-> None] : s \in {200, 404} }
                        \cup { [ok |-> TRUE, status |-> 200, json |-> Some(m)] : m \in AllManifests }

\* answers to the GET of the icon (response.bytes(), image::load_from_memory)
Images == { [w |-> 256, h |-> 256], [w |-> 16, h |-> 48] }
IconResponses == {Fail} \cup { [ok |-> TRUE, status |-> s, image |-> None] : s \in {200, 301} }
                 \cup { [ok |-> TRUE, status |-> s, image |-> Some(i)] : s \in {200, 404}, i \in Images }

(* ---------------- size segment ---------------- *)
Digits == <<"0", "1", "2", "3", "4", "5", "6", "7", "8", "9">>
DigitVal(c) == CHOOSE d \in 0..9 : Digits[d + 1] = c
IsDigit(c) == \E d \in 0..9 : Digits[d + 1] = c
U32MaxDigits == <<"4", "2", "9", "4", "9", "6", "7", "2", "9", "5">>

RECURSIVE DigitsValue(_)
DigitsValue(s) == IF Len(s) = 0 THEN 0
                  ELSE 10 * DigitsValue(SubSeq(s, 1, Len(s) - 1)) + DigitVal(s[Len(s)])

RECURSIVE StripZeros(_)
StripZeros(s) == IF Len(s) > 0 /\ s[1] = "0" THEN StripZeros(Tail(s)) ELSE s

RECURSIVE DigitsLeq(_, _)
\* a <= b for two digit strings of the same length
DigitsLeq(a, b) ==
  IF Len(a) = 0 THEN TRUE
  ELSE IF DigitVal(a[1]) # DigitVal(b[1]) THEN DigitVal(a[1]) < DigitVal(b[1])
  ELSE DigitsLeq(Tail(a), Tail(b))

\* the number fits in 32 bits (checked_mul and checked_add never fail)
FitsU32(d) ==
  \/ Len(StripZeros(d)) < Len(U32MaxDigits)
  \/ Len(StripZeros(d)) = Len(U32MaxDigits) /\ DigitsLeq(StripZeros(d), U32MaxDigits)

\* the checker's integers end at 2^31 - 1: a ten-digit u32 is held as 10^9,
\* which main tells apart from no size it accepts
TenDigits == 1000000000
U32Value(d) == IF Len(StripZeros(d)) < Len(U32MaxDigits) THEN DigitsValue(StripZeros(d))
               ELSE TenDigits

\* str::parse::<u32>().ok(): an optional '+', then one or more digits, no overflow
ParseU32(s) ==
  LET d == IF Len(s) > 0 /\ s[1] = "+" THEN Tail(s) ELSE s
  IN IF Len(d) > 0 /\ (\A i \in 1..Len(d) : IsDigit(d[i])) /\ FitsU32(d)
     THEN Some(U32Value(d)) ELSE None

SizeSegs == { <<"3", "2">>, <<"0">>, <<"5", "1", "2">>, <<"5", "1", "3">>, <<"a">>,
              <<"+", "9", "9", "9">>,
              <<"4", "2", "9", "4", "9", "6", "7", "2", "9", "5">> }
DefaultSize == 64
MaxSize == 512

\* the request paths: the host segment alone, or the host and the size segment
Paths == { <<>> } \cup { <<h>> : h \in Hosts } \cup { <<h, s>> : h \in Hosts, s \in SizeSegs }

(* ---------------- find_icon_url: the synchronous parts ---------------- *)
icons == <<"apple-touch-icon", "icon", "shortcut icon", "link[rel='manifest']">>
ManifestIcon == "link[rel='manifest']"
well_known_icons == << <<"favicon.ico">>, <<"favicon.png">>, <<"apple-touch-icon.png">> >>

\* icon.split_once('[').unwrap_or((icon, "")).0
TagName(icon) == IF icon = ManifestIcon THEN "link" ELSE icon

RECURSIVE FindAll(_, _)
\* soup.tag(t).find_all(): the elements named t, in document order
FindAll(doc, t) ==
  IF Len(doc) = 0 THEN <<>>
  ELSE IF doc[1].tag = t THEN <<doc[1]>> \o FindAll(Tail(doc), t)
  ELSE FindAll(Tail(doc), t)

RECURSIVE WithHref(_)
\* the href values of the elements that have one (element.get(attr))
WithHref(es) ==
  IF Len(es) = 0 THEN <<>>
  ELSE IF IsSome(es[1].href) THEN <<Get(es[1].href)>> \o WithHref(Tail(es))
  ELSE WithHref(Tail(es))

Found(u, s) == [kind |-> "some", url |-> u, by |-> s]
NotFound == [kind |-> "none", url |-> <<>>, by |-> ""]
Failed(s) == [kind |-> "err", url |-> <<>>, by |-> s]
Pending == [kind |-> "pending", url |-> <<>>, by |-> ""]

FullUrlVerbatim(link, base, s) == Found(link, s)

\* lines 54-59: an http(s) link as it is, any other link joined to the base
FullUrl(link, base, s) ==
  IF StartsWithHttp(link) THEN Found(link, s)
  ELSE IF IsSome(UrlJoin(base, link)) THEN Found(UrlToString(Get(UrlJoin(base, link))), s)
  ELSE Failed(s)

\* the first three entries of icons: the first element with an href returns
ScanIcons(doc, base) ==
  LET hs(i) == WithHref(FindAll(doc, TagName(icons[i])))
  IN IF \E i \in 1..3 : Len(hs(i)) > 0
     THEN FullUrl(Head(hs(CHOOSE i \in 1..3 : Len(hs(i)) > 0 /\ \A j \in 1..(i - 1) : Len(hs(j)) = 0)),
                  base, "link")
     ELSE NotFound

\* the links handed to process_manifest, in order
ManifestLinks(doc) == WithHref(FindAll(doc, TagName(icons[4])))

\* validate_and_construct_url
validate_and_construct_url(link, base) ==
  IF StartsWithHttp(link) THEN Found(link, "og")
  ELSE IF IsSome(UrlJoin(base, link)) THEN Found(UrlToString(Get(UrlJoin(base, link))), "og")
  ELSE Failed("og")

RECURSIVE FindOg(_)
\* soup.tag("meta").attr("property", "og:image").find()
FindOg(doc) ==
  IF Len(doc) = 0 THEN None
  ELSE IF doc[1].tag = "meta" /\ doc[1].property = "og:image" THEN Some(doc[1])
  ELSE FindOg(Tail(doc))

RECURSIVE FindOgWithContent(_)
FindOgWithContent(doc) ==
  IF Len(doc) = 0 THEN None
  ELSE IF doc[1].tag = "meta" /\ doc[1].property = "og:image" /\ IsSome(doc[1].content)
  THEN Some(doc[1])
  ELSE FindOgWithContent(Tail(doc))

OgImageSkipsEmpty(doc, base) ==
  IF IsSome(FindOgWithContent(doc))
  THEN validate_and_construct_url(Get(Get(FindOgWithContent(doc)).content), base)
  ELSE NotFound

\* lines 79-85: a candidate, an error, or NotFound when control goes on to the fallback
OgImage(doc, base) ==
  IF IsSome(FindOg(doc)) /\ IsSome(Get(FindOg(doc)).content)
  THEN validate_and_construct_url(Get(Get(FindOg(doc)).content), base)
  ELSE NotFound

fallback_url(url) ==
  <<"https://", "t3.gstatic.com", "/", "faviconV2",
    "?client=SOCIAL&type=FAVICON&fallback_opts=TYPE,SIZE,URL&url=">> \o url \o <<"&size=128">>

FirstEntrySrc(a) == IF Len(a) = 0 THEN None ELSE a[1].src

RECURSIVE FirstSrc(_)
\* lines 125-134: the first entry of the icons array that has a string src
FirstSrc(a) ==
  IF Len(a) = 0 THEN None
  ELSE IF IsSome(a[1].src) THEN a[1].src
  ELSE FirstSrc(Tail(a))

\* process_manifest after its fetch: lines 120-136
ManifestResult(resp, base) ==
  IF ~resp.ok \/ ~IsSome(resp.json) THEN Failed("manifest")
  ELSE IF IsSome(Get(resp.json).icons) /\ IsSome(FirstSrc(Get(Get(resp.json).icons)))
  THEN FullUrl(Get(FirstSrc(Get(Get(resp.json).icons))), base, "manifest")
  ELSE NotFound

ExistsAnySuccess(resp) == resp.ok /\ resp.status >= 200 /\ resp.status < 300

\* check_url_exists after its request: Ok(status == 200), an error counts as absent
Exists(resp) == resp.ok /\ resp.status = 200

IsUpNoUpperBound(status) == status >= 200

IsUpOnly200(status) == status = 200

\* is_website_up line 10
IsUp(status) == status >= 200 /\ status < 300

IsSuccessNoUpperBound(status) == status >= 200

\* fetch_and_scale_icon line 152
IsSuccess(status) == status >= 200 /\ status < 300

BaseUrl == Get(UrlParse(target))

(* ---------------- main ---------------- *)
\* history: the answer was status 200
Answered200(r) == r.ok /\ r.status = 200

Error(msg, status) == [status |-> status, msg |-> msg]
NoResponse == [status |-> 0, msg |-> ""]
Req(m, u, f) == [method |-> m, url |-> u, by |-> f]

Init ==
  /\ pc = "main"
  /\ segs = <<>>
  /\ size = 0
  /\ target = <<>>
  /\ html = <<>>
  /\ elemIdx = 0
  /\ wkIdx = 0
  /\ result = Pending
  /\ log = <<>>
  /\ calls = <<>>
  /\ response = NoResponse
  /\ bodyRead = FALSE
  /\ out = None
  /\ error = None
  /\ seen = Fail
  /\ hit = <<>>

\* lib.rs 7-21: the path segments, the size, the call of is_website_up
Main ==
  /\ pc = "main"
  /\ \E p \in Paths :
       /\ segs' = p
       /\ IF Len(p) < 2
          THEN /\ response' = Error("URL must be in the format /[url-to-website]/[size]", 400)
               /\ pc' = "done"
               /\ UNCHANGED <<size, target, calls>>
          ELSE LET sz == IF IsSome(ParseU32(p[2])) THEN Get(ParseU32(p[2])) ELSE DefaultSize
               IN /\ target' = <<"https://">> \o p[1]
                  /\ size' = sz
                  /\ IF sz > MaxSize
                     THEN /\ response' = Error("Maximum size is 512 pixels", 400)
                          /\ pc' = "done"
                          /\ UNCHANGED calls
                     ELSE /\ pc' = "is_website_up"
                          /\ calls' = Append(calls, "is_website_up")
                          /\ UNCHANGED response
  /\ UNCHANGED <<html, elemIdx, wkIdx, result, log, bodyRead, out, error, seen, hit>>

\* utils.rs 8-11 and lib.rs 21-27
IsWebsiteUp ==
  /\ pc = "is_website_up"
  /\ IF ~IsSome(UrlParse(target))
     THEN /\ response' = Error("Failed to check website accessibility", 500)
          /\ pc' = "done"
          /\ UNCHANGED <<log, calls, seen>>
     ELSE \E resp \in StatusResponses :
          /\ log' = Append(log, Req("GET", UrlToString(BaseUrl), "is_website_up"))
          /\ seen' = resp
          /\ IF ~resp.ok
             THEN /\ response' = Error("Failed to check website accessibility", 500)
                  /\ pc' = "done"
                  /\ UNCHANGED calls
             ELSE IF ~IsUp(resp.status)
             THEN /\ response' = Error("Website is not accessible", 404)
                  /\ pc' = "done"
                  /\ UNCHANGED calls
             ELSE /\ pc' = "root"
                  /\ calls' = Append(calls, "find_icon_url")
                  /\ UNCHANGED response
  /\ UNCHANGED <<segs, size, target, html, elemIdx, wkIdx, result, bodyRead, out, error, hit>>

ReturnAlwaysFetch(r) ==
  /\ result' = r
  /\ pc' = "fetch_and_scale_icon"
  /\ calls' = Append(calls, "fetch_and_scale_icon")
  /\ UNCHANGED response

\* lib.rs 27-33: what main does with the value find_icon_url returns
Return(r) ==
  /\ result' = r
  /\ IF r.kind = "some"
     THEN /\ pc' = "fetch_and_scale_icon"
          /\ calls' = Append(calls, "fetch_and_scale_icon")
          /\ UNCHANGED response
     ELSE /\ pc' = "done"
          /\ response' = IF r.kind = "none" THEN Error("No icon found", 404)
                         ELSE Error("Error finding icon", 500)
          /\ UNCHANGED calls

\* find_icon_url goes on at position p
Continue(p) ==
  /\ pc' = p
  /\ UNCHANGED <<result, calls, response>>

AfterLinkFallbackFirst(doc, i) ==
  IF i <= Len(ManifestLinks(doc))
  THEN /\ Continue("process_manifest")
       /\ elemIdx' = i
       /\ wkIdx' = wkIdx
  ELSE /\ Continue("fallback")
       /\ elemIdx' = i
       /\ wkIdx' = wkIdx

\* after the link-tag loop over doc from manifest link i on: the next manifest, or the probes
AfterLink(doc, i) ==
  IF i <= Len(ManifestLinks(doc))
  THEN /\ Continue("process_manifest")
       /\ elemIdx' = i
       /\ wkIdx' = wkIdx
  ELSE /\ Continue("well_known")
       /\ elemIdx' = i
       /\ wkIdx' = 1

FetchRootAbsorb ==
  /\ pc = "root"
  /\ \E resp \in RootResponses :
       /\ log' = Append(log, Req("GET", UrlToString(BaseUrl), "find_icon_url"))
       /\ seen' = resp
       /\ IF ~resp.ok
          THEN /\ html' = <<>>
               /\ AfterLink(<<>>, 1)
          ELSE /\ html' = resp.text
               /\ IF ScanIcons(resp.text, BaseUrl).kind # "none"
                  THEN /\ Return(ScanIcons(resp.text, BaseUrl))
                       /\ UNCHANGED <<elemIdx, wkIdx>>
                  ELSE AfterLink(resp.text, 1)
  /\ UNCHANGED <<segs, size, target, bodyRead, out, error, hit>>

\* utils.rs 29-63: the root document and the link-tag scan up to the first await
FetchRoot ==
  /\ pc = "root"
  /\ \E resp \in RootResponses :
       /\ log' = Append(log, Req("GET", UrlToString(BaseUrl), "find_icon_url"))
       /\ seen' = resp
       /\ IF ~resp.ok
          THEN /\ Return(Failed("root"))
               /\ UNCHANGED <<html, elemIdx, wkIdx>>
          ELSE /\ html' = resp.text
               /\ IF ScanIcons(resp.text, BaseUrl).kind # "none"
                  THEN /\ Return(ScanIcons(resp.text, BaseUrl))
                       /\ UNCHANGED <<elemIdx, wkIdx>>
                  ELSE AfterLink(resp.text, 1)
  /\ UNCHANGED <<segs, size, target, bodyRead, out, error, hit>>

ManifestStepPropagate(r) == r

\* line 50: if let Ok(Some(icon_url)) = process_manifest(..) : anything else is no candidate
ManifestStep(r) == IF r.kind = "some" THEN r ELSE NotFound

\* utils.rs 47-52 and 109-137: process_manifest on the next link element,
\* its fetch answered from the set R
ProcessManifestWith(R) ==
  /\ pc = "process_manifest"
  /\ LET link == ManifestLinks(html)[elemIdx]
         step(r) == IF ManifestStep(r).kind = "none"
                    THEN AfterLink(html, elemIdx + 1)
                    ELSE /\ Return(ManifestStep(r))
                         /\ UNCHANGED <<elemIdx, wkIdx>>
     IN IF ~IsSome(UrlParse(link))
        THEN /\ step(Failed("manifest"))
             /\ UNCHANGED <<log, seen>>
        ELSE \E resp \in R :
               /\ log' = Append(log, Req("GET", UrlToString(Get(UrlParse(link))), "process_manifest"))
               /\ seen' = resp
               /\ step(ManifestResult(resp, BaseUrl))
  /\ UNCHANGED <<segs, size, target, html, bodyRead, out, error, hit>>

ProcessManifest == ProcessManifestWith(ManifestResponses)

\* utils.rs 66-85: one well-known probe, and the og:image scan after the last one
WellKnown ==
  /\ pc = "well_known"
  /\ LET icon_url == UrlToString(Get(UrlJoin(BaseUrl, well_known_icons[wkIdx])))
     IN \E resp \in StatusResponses :
          /\ log' = Append(log, Req("HEAD", icon_url, "check_url_exists"))
          /\ seen' = resp
          /\ hit' = IF Answered200(resp) THEN Append(hit, icon_url) ELSE hit
          /\ IF Exists(resp)
             THEN /\ Return(Found(icon_url, "well_known"))
                  /\ UNCHANGED wkIdx
             ELSE IF wkIdx < Len(well_known_icons)
             THEN /\ Continue("well_known")
                  /\ wkIdx' = wkIdx + 1
             ELSE /\ wkIdx' = wkIdx + 1
                  /\ IF OgImage(html, BaseUrl).kind # "none"
                     THEN Return(OgImage(html, BaseUrl))
                     ELSE Continue("fallback")
  /\ UNCHANGED <<segs, size, target, html, elemIdx, bodyRead, out, error>>

\* utils.rs 88-96: the fallback service
Fallback ==
  /\ pc = "fallback"
  /\ \E resp \in StatusResponses :
       /\ log' = Append(log, Req("HEAD", UrlToString(Get(UrlParse(fallback_url(target)))),
                                 "check_url_exists"))
       /\ seen' = resp
       /\ hit' = IF Answered200(resp) THEN Append(hit, fallback_url(target)) ELSE hit
       /\ IF Exists(resp)
          THEN Return(Found(fallback_url(target), "fallback"))
          ELSE Return(NotFound)
  /\ UNCHANGED <<segs, size, target, html, elemIdx, wkIdx, bodyRead, out, error>>

\* DynamicImage::resize, which keeps the aspect ratio within sz x sz
resize_image_keep_aspect(img, sz) ==
  IF img.w >= img.h
  THEN [w |-> sz, h |-> IF (img.h * sz) \div img.w < 1 THEN 1 ELSE (img.h * sz) \div img.w,
        format |-> "png"]
  ELSE [w |-> IF (img.w * sz) \div img.h < 1 THEN 1 ELSE (img.w * sz) \div img.h, h |-> sz,
        format |-> "png"]

\* resize_image after a successful decode: resize_exact(size, size), written as PNG
resize_image(img, sz) == [w |-> sz, h |-> sz, format |-> "png"]

\* what resize_image returns for a decoded image: the encoded image; for size 0
\* the image library decides whether an empty image is encoded or write_to fails
ResizeOutcomes(img, sz) ==
  IF sz > 0 THEN { Some(resize_image(img, sz)) }
  ELSE { Some(resize_image(img, sz)), None }

FetchError(msg, status) == Some([msg |-> msg, status |-> status])

\* utils.rs 150-168 and lib.rs 33-40
FetchAndScaleIcon ==
  /\ pc = "fetch_and_scale_icon"
  /\ pc' = "done"
  /\ IF ~IsSome(UrlParse(result.url))
     THEN /\ error' = FetchError("url", 0)
          /\ response' = Error("Failed to fetch or scale the icon", 500)
          /\ UNCHANGED <<log, bodyRead, out, seen>>
     ELSE \E resp \in IconResponses :
          /\ log' = Append(log, Req("GET", UrlToString(Get(UrlParse(result.url))), "fetch_and_scale_icon"))
          /\ seen' = resp
          /\ IF ~resp.ok
             THEN /\ error' = FetchError("send", 0)
                  /\ response' = Error("Failed to fetch or scale the icon", 500)
                  /\ UNCHANGED <<bodyRead, out>>
             ELSE IF IsSuccess(resp.status)
             THEN /\ bodyRead' = TRUE
                  /\ IF IsSome(resp.image)
                     THEN \E o \in ResizeOutcomes(Get(resp.image), size) :
                            IF IsSome(o)
                            THEN /\ out' = o
                                 /\ response' = [status |-> 200, msg |-> "image/png"]
                                 /\ UNCHANGED error
                            ELSE /\ error' = FetchError("encode", 0)
                                 /\ response' = Error("Failed to fetch or scale the icon", 500)
                                 /\ UNCHANGED out
                     ELSE /\ error' = FetchError("decode", 0)
                          /\ response' = Error("Failed to fetch or scale the icon", 500)
                          /\ UNCHANGED out
             ELSE /\ error' = FetchError("Failed to fetch the original image: HTTP", resp.status)
                  /\ response' = Error("Failed to fetch or scale the icon", 500)
                  /\ UNCHANGED <<bodyRead, out>>
  /\ UNCHANGED <<segs, size, target, html, elemIdx, wkIdx, result, calls, hit>>

Next ==
  \/ Main
  \/ IsWebsiteUp
  \/ FetchRoot
  \/ ProcessManifest
  \/ WellKnown
  \/ Fallback
  \/ FetchAndScaleIcon

Spec == Init /\ [][Next]_vars

(* ---------------- process_manifest on its own ---------------- *)
\* find_icon_url at its first manifest link, for a document of link elements,
\* as Spec reaches it
LinkDocs == { d \in Docs : Len(d) > 0 /\ \A i \in 1..Len(d) : d[i].tag = "link" }

InitManifest ==
  /\ pc = "process_manifest"
  /\ segs = << <<"example.com">>, <<"3", "2">> >>
  /\ size = 32
  /\ target = <<"https://", "example.com">>
  /\ html \in LinkDocs
  /\ elemIdx = 1
  /\ wkIdx = 0
  /\ result = Pending
  /\ log = << Req("GET", <<"https://", "example.com", "/">>, "is_website_up"),
              Req("GET", <<"https://", "example.com", "/">>, "find_icon_url") >>
  /\ calls = <<"is_website_up", "find_icon_url">>
  /\ response = NoResponse
  /\ bodyRead = FALSE
  /\ out = None
  /\ error = None
  /\ seen = [ok |-> TRUE, status |-> 200, text |-> html]
  /\ hit = <<>>

ProcessAnyManifest == ProcessManifestWith(AllManifestResponses)

NextManifest ==
  \/ ProcessAnyManifest
  \/ WellKnown
  \/ Fallback
  \/ FetchAndScaleIcon

SpecManifest == InitManifest /\ [][NextManifest]_vars

(* ======================= properties ======================= *)
Last(q) == q[Len(q)]
Returned == result.kind # "pending"
ExampleCom == <<"https://", "example.com">>

\* what the specification calls normalising a link against the base URL
Normalized(v) == IF StartsWithHttp(v) THEN v ELSE UrlToString(Get(UrlJoin(BaseUrl, v)))

RECURSIVE LinkRel(_, _)
\* the hrefs of the link elements of doc whose rel is r
LinkRel(doc, r) ==
  IF Len(doc) = 0 THEN <<>>
  ELSE IF doc[1].tag = "link" /\ doc[1].rel = r /\ IsSome(doc[1].href)
  THEN <<Get(doc[1].href)>> \o LinkRel(Tail(doc), r)
  ELSE LinkRel(Tail(doc), r)

(* ---- C1 ---- *)
Unreachable ==
  /\ Len(log) = 1
  /\ log[1].by = "is_website_up"
  /\ ~(seen.ok /\ seen.status \in 200..299)

\* C1: when the reachability GET answers a status outside 200..299 or fails,
\* the request is over: find_icon_url and fetch_and_scale_icon are never
\* invoked and no request follows the reachability check (a finished request
\* takes no further step).
C1_StopsAtReachability ==
  /\ [](Unreachable => pc = "done" /\ calls = <<"is_website_up">>)
  /\ [][pc # "done"]_vars

C1_Witness == Unreachable /\ seen.ok /\ seen.status = 404 /\ response.status = 404

(* ---- C2 ---- *)
HasAppleAndShortcut(doc) ==
  Len(LinkRel(doc, "apple-touch-icon")) > 0 /\ Len(LinkRel(doc, "shortcut icon")) > 0

\* C2: a root document with both an apple-touch-icon link and a shortcut icon
\* link makes find_icon_url return the normalized href of the apple-touch-icon link.
C2_AppleTouchIconFirst ==
  (Returned /\ HasAppleAndShortcut(html)) =>
     /\ result.kind = "some"
     /\ result.url = Normalized(Head(LinkRel(html, "apple-touch-icon")))

(* ---- C3 ---- *)
\* C3: for the document <link rel="icon" href="/static/icon.png"> and the base
\* https://example.com, find_icon_url returns https://example.com/static/icon.png.
C3_RelativeIconLink ==
  (Returned /\ target = ExampleCom
     /\ html = << Elem("link", "icon", Some(<<"/", "static", "/", "icon.png">>), "", None) >>) =>
     /\ result.kind = "some"
     /\ result.url = <<"https://", "example.com", "/", "static", "/", "icon.png">>

(* ---- C4 ---- *)
WellKnownUrls == << <<"https://", "example.com", "/", "favicon.ico">>,
                    <<"https://", "example.com", "/", "favicon.png">>,
                    <<"https://", "example.com", "/", "apple-touch-icon.png">> >>
IsFallbackReq(e) == e.method = "HEAD" /\ e.url[2] = "t3.gstatic.com"
IsProbe(e) == e.method = "HEAD" /\ ~IsFallbackReq(e)
Probes(q) == SelectSeq(q, IsProbe)

C4_Order ==
  /\ Len(Probes(log)) <= 3
  /\ \A k \in 1..Len(Probes(log)) : Probes(log)[k].url = WellKnownUrls[k]
  /\ result.by = "well_known" =>
       /\ result.kind = "some"
       /\ result.url = Last(Probes(log)).url
       /\ \A i \in 1..Len(log) : ~IsFallbackReq(log[i])

C4_Step ==
  /\ (pc \in {"root", "process_manifest"} /\ pc' # "process_manifest" /\ result' = Pending) =>
        pc' = "well_known" /\ Probes(log') = <<>>
  /\ (pc = "well_known") =>
        /\ Len(log') = Len(log) + 1
        /\ IsProbe(Last(log'))
        /\ IF Answered200(seen')
           THEN result' = Found(Last(log').url, "well_known") /\ pc' = "fetch_and_scale_icon"
           ELSE /\ result'.by # "well_known"
                /\ Len(Probes(log')) < 3 => pc' = "well_known" /\ result' = Pending

\* C4: once the link-tag scan has no candidate, the well-known paths are probed
\* one at a time in the order favicon.ico, favicon.png, apple-touch-icon.png;
\* the first probe answered exactly 200 is the candidate and ends the probing
\* (no later path, no fallback); any other answer counts as absent.
C4_WellKnownProbing == []C4_Order /\ [][C4_Step]_vars

C4_Witness ==
  /\ result.by = "well_known"
  /\ Len(Probes(log)) = 2
  /\ result.url = <<"https://", "example.com", "/", "favicon.png">>

(* ---- C5 ---- *)
\* the document has only standard elements (link and meta)
StandardElements(doc) == \A i \in 1..Len(doc) : doc[i].tag \in {"link", "meta"}

\* C5: once the root document has been obtained, find_icon_url never returns
\* an error: the only error it returns is the failure of the root fetch
\* (stated for documents of link and meta elements).
C5_NoErrorAfterRoot == (result.kind = "err" /\ StandardElements(html)) => result.by = "root"

(* ---- C6 ---- *)
\* a fetched manifest that is not JSON, has no icons array, or has no entry with a src
NoIconManifest(r) ==
  /\ r.ok
  /\ \/ ~IsSome(r.json)
     \/ ~IsSome(Get(r.json).icons)
     \/ \A i \in 1..Len(Get(Get(r.json).icons)) : ~IsSome(Get(Get(r.json).icons)[i].src)

C6_Step ==
  (pc = "process_manifest" /\ Len(log') = Len(log) + 1 /\ NoIconManifest(seen')) =>
     /\ result' = Pending
     /\ response' = NoResponse
     /\ IF elemIdx < Len(ManifestLinks(html))
        THEN pc' = "process_manifest" /\ elemIdx' = elemIdx + 1
        ELSE pc' = "well_known" /\ wkIdx' = 1 /\ Probes(log') = <<>>

\* C6: a manifest link whose fetched content is not JSON, has no icons array or
\* has no entry with a src does not end the resolution: find_icon_url returns
\* nothing at that point and goes on to the next link element and, after the
\* last one, to the first well-known probe.
C6_ManifestWithoutIcons == [][C6_Step]_vars

C6_Witness ==
  /\ pc = "well_known"
  /\ wkIdx = 1
  /\ Last(log).by = "process_manifest"
  /\ seen.ok
  /\ IsSome(seen.json)
  /\ ~IsSome(Get(seen.json).icons)

(* ---- C7 ---- *)
IconNot2xx ==
  /\ Len(log) > 0
  /\ Last(log).by = "fetch_and_scale_icon"
  /\ seen.ok
  /\ seen.status \notin 200..299

\* C7: a candidate whose GET is answered with a status outside 200..299 makes
\* fetch_and_scale_icon fail with the fetch error that carries that status;
\* the body is not read and nothing is decoded or resized.
C7_IconFetchFailed ==
  IconNot2xx =>
     /\ error = Some([msg |-> "Failed to fetch the original image: HTTP", status |-> seen.status])
     /\ ~bodyRead
     /\ out = None
     /\ response = Error("Failed to fetch or scale the icon", 500)

C7_Witness == IconNot2xx /\ seen.status = 404 /\ IsSome(seen.image)

(* ---- C8 ---- *)
\* absolute in form: the http or https scheme, then an authority
IsAbsolute(u) == Len(u) >= 2 /\ u[1] \in {"http://", "https://"} /\ u[2] \notin {"/", "//"}

IsSuffix(v, u) == Len(v) <= Len(u) /\ SubSeq(u, Len(u) - Len(v) + 1, Len(u)) = v

\* u is the value v as it is when v begins with http:// or https://,
\* and v under the base https://example.com otherwise
SurfacedFrom(v, u) ==
  IF Len(v) > 0 /\ v[1] \in {"http://", "https://"} THEN u = v
  ELSE /\ Len(u) > 2
       /\ SubSeq(u, 1, 2) = ExampleCom
       /\ u[3] = "/"
       /\ IsSuffix(v, u)

HrefValues == { Get(html[i].href) : i \in { j \in 1..Len(html) : IsSome(html[j].href) } }
ContentValues == { Get(html[i].content) : i \in { j \in 1..Len(html) : IsSome(html[j].content) } }
SrcValues ==
  IF seen.ok /\ IsSome(seen.json) /\ IsSome(Get(seen.json).icons)
  THEN LET a == Get(Get(seen.json).icons)
       IN { Get(a[i].src) : i \in { j \in 1..Len(a) : IsSome(a[j].src) } }
  ELSE {}

IsResolverReq(e) == e.by \in {"find_icon_url", "process_manifest", "check_url_exists"}
ResolverLog == SelectSeq(log, IsResolverReq)
Rank(e) == IF e.by = "find_icon_url" THEN 1
           ELSE IF e.by = "process_manifest" THEN 2
           ELSE IF IsProbe(e) THEN 3
           ELSE 5

C9_Order ==
  /\ \A i, j \in 1..Len(ResolverLog) : i < j => Rank(ResolverLog[i]) <= Rank(ResolverLog[j])
  /\ \A i, j \in 1..Len(ResolverLog) : (i < j /\ Rank(ResolverLog[j]) \in {1, 5}) =>
        Rank(ResolverLog[i]) < Rank(ResolverLog[j])
  /\ (\E i \in 1..Len(log) : IsFallbackReq(log[i])) => Len(Probes(log)) = 3
  /\ result.kind = "some" =>
       /\ result.by = "link" => Len(ResolverLog) = 1
       /\ result.by = "manifest" => Rank(Last(ResolverLog)) = 2
       /\ result.by = "well_known" => Rank(Last(ResolverLog)) = 3
       /\ result.by = "og" => Rank(Last(ResolverLog)) = 3 /\ Len(Probes(log)) = 3
       /\ result.by = "fallback" => Rank(Last(ResolverLog)) = 5

C9_Step ==
  Returned => /\ result' = result
              /\ log' # log => Len(log') = Len(log) + 1 /\ Last(log').by = "fetch_and_scale_icon"

\* C9: the strategies run in the order link-tag scan, well-known probing,
\* og:image, fallback service; the first candidate is the result, it is the only
\* one, and the resolver issues no request after it.
C9_FirstSuccessWins == []C9_Order /\ [][C9_Step]_vars

C9_Witness == result.kind = "some" /\ result.by = "og" /\ Len(Probes(log)) = 3

(* ---- C10 ---- *)
IconRels == {"apple-touch-icon", "icon", "shortcut icon", "manifest"}
NoIconLinks(doc) == \A i \in 1..Len(doc) : ~(doc[i].tag = "link" /\ doc[i].rel \in IconRels)
NoOgImage(doc) == ~IsSome(FindOg(doc))
Invoked(f) == \E i \in 1..Len(calls) : calls[i] = f

\* C10: with no icon links and no og:image tag in the root document, and no
\* well-known probe and no fallback check answered 200, find_icon_url returns
\* Ok(None) and main answers "No icon found" without invoking fetch_and_scale_icon
\* (stated for documents of link and meta elements).
C10_NoIconFound ==
  (Returned /\ result.by # "root" /\ StandardElements(html) /\ NoIconLinks(html)
     /\ NoOgImage(html) /\ hit = <<>>) =>
     /\ result = NotFound
     /\ response = Error("No icon found", 404)
     /\ ~Invoked("fetch_and_scale_icon")

(* ---- C11 ---- *)
\* the reachability GET is the only request so far, seen is its answer
ReachabilityAnswered == Len(log) = 1 /\ log[1].by = "is_website_up"

RootFetchFailed == Len(log) = 2 /\ log[2].by = "find_icon_url" /\ ~seen.ok

\* C12: when the fetch of the root document fails, find_icon_url returns an
\* error (not "no icon found"), no strategy runs and no manifest fetch, probe or
\* fallback check is issued; main answers with an error and never invokes
\* fetch_and_scale_icon.
C12_RootFetchFatal ==
  /\ RootFetchFailed => result = Failed("root")
  /\ (result.kind = "err" /\ result.by = "root") =>
       /\ pc = "done"
       /\ Len(log) = 2
       /\ html = <<>>
       /\ hit = <<>>
       /\ response = Error("Error finding icon", 500)
       /\ calls = <<"is_website_up", "find_icon_url">>

C12_Witness == RootFetchFailed /\ pc = "done" /\ response.status = 500

(* ---- C13 ---- *)
\* the icon GET was answered 2xx with a decodable image, for a positive size
IconDecoded ==
  /\ pc = "done"
  /\ Len(log) > 0
  /\ Last(log).by = "fetch_and_scale_icon"
  /\ seen.ok
  /\ seen.status \in 200..299
  /\ IsSome(seen.image)
  /\ size > 0

\* C13: a decodable source image of any width and height and a positive size
\* give an output of exactly size x size pixels, encoded as PNG, whatever the
\* aspect ratio of the source.
C13_ExactSquare ==
  IconDecoded =>
     /\ out = Some([w |-> size, h |-> size, format |-> "png"])
     /\ response = [status |-> 200, msg |-> "image/png"]
     /\ error = None

C13_Witness ==
  /\ IconDecoded
  /\ size = 32
  /\ Get(seen.image) = [w |-> 256, h |-> 256]
  /\ out = Some([w |-> 32, h |-> 32, format |-> "png"])

(* ---- C14 ---- *)
ManifestRelHrefs == { LinkRel(html, "manifest")[i] : i \in 1..Len(LinkRel(html, "manifest")) }

\* C14: process_manifest is invoked only on link elements whose rel is
\* "manifest": every manifest fetch is the fetch of the href of such a link.
C14_OnlyManifestLinks ==
  \A i \in 1..Len(log) :
     log[i].by = "process_manifest" => log[i].url \in ManifestRelHrefs

(* ---- C15 ---- *)
Stages == <<"is_website_up", "find_icon_url", "fetch_and_scale_icon">>
StageOf(e) == IF e.by = "is_website_up" THEN 1
              ELSE IF e.by = "fetch_and_scale_icon" THEN 3
              ELSE 2
RequestsBy(f) == Cardinality({ i \in 1..Len(log) : log[i].by = f })

C15_Order ==
  /\ Len(calls) <= 3
  /\ \A i \in 1..Len(calls) : calls[i] = Stages[i]
  /\ \A i, j \in 1..Len(log) : i < j => StageOf(log[i]) <= StageOf(log[j])
  /\ \A i \in 1..Len(log) : Invoked(Stages[StageOf(log[i])])
  /\ RequestsBy("is_website_up") <= 1
  /\ RequestsBy("find_icon_url") <= 1
  /\ RequestsBy("fetch_and_scale_icon") <= 1
  /\ Invoked("fetch_and_scale_icon") => result.kind = "some"
  /\ \A i \in 1..Len(log) :
       log[i].by = "fetch_and_scale_icon" =>
          log[i].url = result.url \/ log[i].url = result.url \o <<"/">>
  /\ response # NoResponse => pc = "done"

C15_Step ==
  /\ pc # "done"
  /\ calls' # calls =>
       /\ Len(calls') = Len(calls) + 1
       /\ SubSeq(calls', 1, Len(calls)) = calls
       /\ Last(calls') = "find_icon_url" =>
            pc = "is_website_up" /\ seen'.ok /\ seen'.status \in 200..299
       /\ Last(calls') = "fetch_and_scale_icon" =>
            result = Pending /\ result'.kind = "some"

\* C15: the stages run in the order reachability check, icon resolver,
\* fetch-and-rescale, each at most once and only after the stage before it
\* succeeded; fetch_and_scale_icon gets the candidate find_icon_url returned
\* in this request, and a failed stage ends the request with no retry.
C15_StagesInOrder == []C15_Order /\ [][C15_Step]_vars

C15_Witness ==
  /\ pc = "done"
  /\ calls = Stages
  /\ RequestsBy("fetch_and_scale_icon") = 1
  /\ response.status = 200

(* ---- C16 ---- *)
IsOg(e) == e.tag = "meta" /\ e.property = "og:image"
OgIndexes == { i \in 1..Len(html) : IsOg(html[i]) }
OgContents == { Get(html[i].content) : i \in { j \in OgIndexes : IsSome(html[j].content) } }
FirstOgIndex == CHOOSE i \in OgIndexes : \A j \in OgIndexes : i <= j
FallbackContacted == \E i \in 1..Len(log) : IsFallbackReq(log[i])
\* all three well-known probes have been answered and none was selected
ProbesFailed == Len(Probes(log)) = 3 /\ result.by # "well_known"
\* a reference Url::join rejects: a scheme-relative value with an invalid host
Unresolvable(v) == Len(v) >= 2 /\ v[1] = "//" /\ v[2] = "["

\* C16 as claimed: og:image is consulted only after the three probes failed;
\* a meta og:image element with a content attribute makes find_icon_url return
\* the content normalized, without contacting the fallback; without such an
\* element control passes to the fallback service (stated for content values
\* that resolve).
C16_OgImage ==
  /\ result.by = "og" => Len(Probes(log)) = 3
  /\ (ProbesFailed /\ \A v \in OgContents : ~Unresolvable(v)) =>
       IF OgContents # {}
       THEN /\ result.kind = "some"
            /\ result.by = "og"
            /\ \E v \in OgContents : SurfacedFrom(v, result.url)
            /\ ~FallbackContacted
       ELSE pc = "fallback" \/ FallbackContacted

\* C16 amended: og:image is consulted only after the three probes failed, and
\* only the first meta og:image element counts.  Its content is returned as it
\* is when it begins with http:// or https://, resolved against the base when
\* it resolves, and makes find_icon_url return an error when it does not
\* resolve; in these three cases the fallback is never contacted.  Without a
\* meta og:image element, or when the first one has no content, control passes
\* to the fallback service.
C16_FirstOgImage ==
  /\ result.by = "og" => Len(Probes(log)) = 3
  /\ ProbesFailed =>
       IF OgIndexes # {} /\ IsSome(html[FirstOgIndex].content)
       THEN /\ result.by = "og"
            /\ ~FallbackContacted
            /\ IF Unresolvable(Get(html[FirstOgIndex].content))
               THEN result.kind = "err" /\ response = Error("Error finding icon", 500)
               ELSE /\ result.kind = "some"
                    /\ SurfacedFrom(Get(html[FirstOgIndex].content), result.url)
       ELSE /\ result.by # "og"
            /\ pc = "fallback" \/ FallbackContacted

C16_Witness ==
  /\ ProbesFailed
  /\ result = Found(<<"https://", "example.com", "/", "static", "/", "icon.png">>, "og")
  /\ ~FallbackContacted
  /\ pc = "fetch_and_scale_icon"

(* ---- C17 ---- *)
\* the last request is a manifest fetch answered with JSON that has an icons array
ManifestWithIcons ==
  /\ Len(log) > 0
  /\ Last(log).by = "process_manifest"
  /\ seen.ok
  /\ IsSome(seen.json)
  /\ IsSome(Get(seen.json).icons)
SeenIcons == Get(Get(seen.json).icons)
SrcIndexes == { i \in 1..Len(SeenIcons) : IsSome(SeenIcons[i].src) }
FirstSrcIndex == CHOOSE i \in SrcIndexes : \A j \in SrcIndexes : i <= j

\* C17 as claimed: the candidate of a manifest is the src of the first entry of
\* the icons array, normalized; the src of a later entry is never returned.
C17_FirstEntry ==
  (ManifestWithIcons /\ result.by = "manifest") =>
     /\ IsSome(SeenIcons[1].src)
     /\ SurfacedFrom(Get(SeenIcons[1].src), result.url)

\* C17 amended: the candidate of a manifest is the src of the first entry that
\* has a src, unchanged when it begins with http:// or https://, joined to the
\* base URL otherwise; a src that cannot be joined and an array without any src
\* give no candidate, and the src of a later entry is never returned when an
\* earlier entry has a src.
C17_FirstEntryWithSrc ==
  ManifestWithIcons =>
     IF SrcIndexes # {} /\ ~Unresolvable(Get(SeenIcons[FirstSrcIndex].src))
     THEN /\ result.kind = "some"
          /\ result.by = "manifest"
          /\ SurfacedFrom(Get(SeenIcons[FirstSrcIndex].src), result.url)
     ELSE result = Pending

C17_Witness ==
  /\ ManifestWithIcons
  /\ Len(SeenIcons) = 2
  /\ SeenIcons[1].src = Some(<<"/", "static", "/", "icon.png">>)
  /\ SeenIcons[2].src = Some(<<"https://", "cdn.example.net", "/", "a.png">>)
  /\ result = Found(<<"https://", "example.com", "/", "static", "/", "icon.png">>, "manifest")

(* ---- C18 ---- *)
\* C18: whatever the size segment is, the size main passes to
\* fetch_and_scale_icon is a positive integer not greater than 512.
C18_SizeInRange == Invoked("fetch_and_scale_icon") => size \in 1..512
====
